---- MODULE Spec2Model ----
(***************************************************************************)
(* Protected<T>, ConstPtr<T> and MutablePtr<T> of protected_value.hpp      *)
(* (src/unnamed/part_000), with T = Point {x, y} of example.cpp.           *)
(*                                                                         *)
(* One Protected<Point> is shared by NThreads threads.  Every thread owns  *)
(* MaxGuards guard objects (each constructed at most once) and runs the    *)
(* public operations in any order.  A blocking call is a pair of steps:    *)
(* the call, and the acquisition that lets it proceed.  The assignment     *)
(* value_ = value and the copy made by get() touch the two fields of the   *)
(* payload one after the other.                                            *)
(***************************************************************************)
EXTENDS Integers, FiniteSets, Sequences, TLC

VARIABLES value_, mutex_, guards, pc, arg, ret, out, hist, script, calls

vars == <<value_, mutex_, guards, pc, arg, ret, out, hist, script, calls>>

\* ---------------------------------------------------------------- bounds

NThreads == 2
MaxGuards == 2

\* The operations a thread calls in a program where every thread calls
\* finitely many.
MaxCalls == 2

Threads == 1..NThreads
Slots == 1..MaxGuards
GuardIds == Threads \X Slots

NoThread == 0
NoGuard == <<0, 0>>

\* ----------------------------------------------------------------- Point

\* Values a field of the payload takes in example.cpp and README.md.
Point(a, b) == [x |-> a, y |-> b]

InitialPoints == {Point(42, 69)}
SetArgs == {Point(42, 69), Point(1, 2)}
\* The assignment made through a MutablePtr: val->x = 68.
PtrWrites == {68}
PtrFields == {"x"}

\* A local Point whose fields have not been copied yet.
NoValue == 0
Blank == Point(NoValue, NoValue)

\* The parameter of set while no call of set is in progress.
NoArg == [v |-> Blank, ovl |-> "none"]

\* ------------------------------------------------------ std::shared_mutex

\* The ownership state of the lock: the thread owning it exclusively, and
\* the number of shared ownerships of every thread.
Unlocked == [exclusive |-> NoThread, shared |-> [t \in Threads |-> 0], ub |-> FALSE]

\* The lock after an operation whose behaviour is undefined: nothing is known
\* of its state, and any later operation on it may return.
Corrupt == [exclusive |-> NoThread, shared |-> [t \in Threads |-> 0], ub |-> TRUE]

SharedCount(m) == LET S[n \in 0..NThreads] == IF n = 0 THEN 0 ELSE S[n - 1] + m.shared[n]
                  IN  S[NThreads]

\* lock() returns once nobody owns the lock.
CanLock(m) == m.ub \/ (m.exclusive = NoThread /\ SharedCount(m) = 0)

Lock(m, t) == IF m.ub THEN m ELSE [m EXCEPT !.exclusive = t]

\* lock_shared() returns once nobody owns the lock exclusively.
CanLockShared(m) == m.ub \/ m.exclusive = NoThread

LockShared(m, t) == IF m.ub THEN m ELSE [m EXCEPT !.shared[t] = @ + 1]

\* unlock() by a thread that does not own the lock exclusively, and
\* unlock_shared() by a thread without a shared ownership, are undefined.
Unlock(m, t) == IF ~m.ub /\ m.exclusive = t
                THEN [m EXCEPT !.exclusive = NoThread]
                ELSE Corrupt

UnlockShared(m, t) == IF ~m.ub /\ m.shared[t] > 0
                      THEN [m EXCEPT !.shared[t] = @ - 1]
                      ELSE Corrupt

\* ---------------------------------------------------------------- guards

\* The storage of a guard before its constructor has run.
Unborn == [st |-> "unborn", kind |-> "none", obj_ |-> "nullptr",
           acq |-> NoGuard, moved |-> FALSE, unlocks |-> 0]

\* A guard whose destructor has run: its members are gone.  acq and unlocks
\* record the acquisition it came from and the unlock calls it made.
Destroyed(g, n) == [st |-> "dead", kind |-> "none", obj_ |-> "nullptr",
                    acq |-> g.acq, moved |-> FALSE, unlocks |-> n]

Born(t) == {g \in GuardIds : g[1] = t /\ guards[g].st = "live"}
Free(t) == {i \in Slots : guards[<<t, i>>].st = "unborn"}

\* The storage of the next guard object a thread constructs.
NextSlot(t) == <<t, CHOOSE i \in Free(t) : \A j \in Free(t) : i <= j>>

\* operator bool
Bool(g) == guards[g].obj_ /= "nullptr"

\* ------------------------------------------------------------------ Init

Init == /\ value_ \in InitialPoints
        /\ mutex_ = Unlocked
        /\ guards = [g \in GuardIds |-> Unborn]
        /\ pc = [t \in Threads |-> "idle"]
        /\ arg = [t \in Threads |-> NoArg]
        /\ ret = [t \in Threads |-> Blank]
        /\ out = Blank
        /\ hist = [set |-> Blank, ptr |-> FALSE]
        /\ script = 0
        /\ calls = [t \in Threads |-> 0]

\* ------------------------------------------------------- Protected<T>::set

SetCall(t, v, o) == /\ pc[t] = "idle"
                    /\ pc' = [pc EXCEPT ![t] = "set_lock"]
                    /\ arg' = [arg EXCEPT ![t] = [v |-> v, ovl |-> o]]
                    /\ UNCHANGED <<value_, mutex_, guards, ret, out, hist>>

\* set(const T&)
SetCopy(t, v) == SetCall(t, v, "const T&")

\* set(T&&)
SetMove(t, v) == SetCall(t, v, "T&&")

\* set() that does not wait for the lock.
SetLockMissing(t) == /\ pc[t] = "set_lock"
                     /\ mutex_' = Lock(mutex_, t)
                     /\ pc' = [pc EXCEPT ![t] = "set_x"]
                     /\ hist' = [set |-> arg[t].v, ptr |-> FALSE]
                     /\ UNCHANGED <<value_, guards, arg, ret, out>>

\* set() taking the lock in shared mode.
SetLockShared(t) == /\ pc[t] = "set_lock"
                    /\ CanLockShared(mutex_)
                    /\ mutex_' = LockShared(mutex_, t)
                    /\ pc' = [pc EXCEPT ![t] = "set_x"]
                    /\ hist' = [set |-> arg[t].v, ptr |-> FALSE]
                    /\ UNCHANGED <<value_, guards, arg, ret, out>>

\* const std::unique_lock lk(mutex_);
SetLock(t) == /\ pc[t] = "set_lock"
              /\ CanLock(mutex_)
              /\ mutex_' = Lock(mutex_, t)
              /\ pc' = [pc EXCEPT ![t] = "set_x"]
              /\ hist' = [set |-> arg[t].v, ptr |-> FALSE]
              /\ UNCHANGED <<value_, guards, arg, ret, out>>

\* const std::unique_lock lk(mutex_), called by the thread that owns the lock
\* exclusively: lock() is undefined there; it never returns (no step), or it
\* fails with std::system_error (resource_deadlock_would_occur) and set is
\* left by the exception with nothing written.
SetLockThrows(t) == /\ pc[t] = "set_lock"
                    /\ ~mutex_.ub /\ mutex_.exclusive = t
                    /\ pc' = [pc EXCEPT ![t] = "idle"]
                    /\ arg' = [arg EXCEPT ![t] = NoArg]
                    /\ UNCHANGED <<value_, mutex_, guards, ret, out, hist>>

\* set() writing into a payload whose storage the Point returned by get()
\* shares.
SetWriteXAliased(t) == /\ pc[t] = "set_x"
                       /\ value_' = [value_ EXCEPT !.x = arg[t].v.x]
                       /\ out' = IF out = Blank THEN out
                                 ELSE [out EXCEPT !.x = arg[t].v.x]
                       /\ pc' = [pc EXCEPT ![t] = "set_y"]
                       /\ UNCHANGED <<mutex_, guards, arg, ret, hist>>

\* value_ = value; the first field
SetWriteX(t) == /\ pc[t] = "set_x"
                /\ value_' = [value_ EXCEPT !.x = arg[t].v.x]
                /\ pc' = [pc EXCEPT ![t] = "set_y"]
                /\ UNCHANGED <<mutex_, guards, arg, ret, out, hist>>

\* set() whose lock is released before the assignment is complete.
SetWriteYUnlocked(t) == /\ pc[t] = "set_y"
                        /\ value_' = [value_ EXCEPT !.y = arg[t].v.y]
                        /\ mutex_' = Unlock(mutex_, t)
                        /\ pc' = [pc EXCEPT ![t] = "set_unlock"]
                        /\ UNCHANGED <<guards, arg, ret, out, hist>>

\* value_ = value; the second field
SetWriteY(t) == /\ pc[t] = "set_y"
                /\ value_' = [value_ EXCEPT !.y = arg[t].v.y]
                /\ pc' = [pc EXCEPT ![t] = "set_unlock"]
                /\ UNCHANGED <<mutex_, guards, arg, ret, out, hist>>

\* ~unique_lock, and the return
SetUnlock(t) == /\ pc[t] = "set_unlock"
                /\ mutex_' = Unlock(mutex_, t)
                /\ pc' = [pc EXCEPT ![t] = "idle"]
                /\ arg' = [arg EXCEPT ![t] = NoArg]
                /\ UNCHANGED <<value_, guards, ret, out, hist>>

\* ------------------------------------------------------- Protected<T>::get

GetCall(t) == /\ pc[t] = "idle"
              /\ pc' = [pc EXCEPT ![t] = "get_lock"]
              /\ UNCHANGED <<value_, mutex_, guards, arg, ret, out, hist>>

\* get() copying without taking the lock.
GetLockMissing(t) == /\ pc[t] = "get_lock"
                     /\ pc' = [pc EXCEPT ![t] = "get_x"]
                     /\ UNCHANGED <<value_, mutex_, guards, arg, ret, out, hist>>

\* const std::shared_lock lk(mutex_);
GetLock(t) == /\ pc[t] = "get_lock"
              /\ CanLockShared(mutex_)
              /\ mutex_' = LockShared(mutex_, t)
              /\ pc' = [pc EXCEPT ![t] = "get_x"]
              /\ UNCHANGED <<value_, guards, arg, ret, out, hist>>

\* const std::shared_lock lk(mutex_), called by the thread that owns the lock
\* exclusively: lock_shared() never returns, or fails with std::system_error.
GetLockThrows(t) == /\ pc[t] = "get_lock"
                    /\ ~mutex_.ub /\ mutex_.exclusive = t
                    /\ pc' = [pc EXCEPT ![t] = "idle"]
                    /\ UNCHANGED <<value_, mutex_, guards, arg, ret, out, hist>>

\* get() that moves the payload out: return std::move(value_).
GetCopyXMovesOut(t) == /\ pc[t] = "get_x"
                       /\ ret' = [ret EXCEPT ![t].x = value_.x]
                       /\ value_' = [value_ EXCEPT !.x = NoValue]
                       /\ pc' = [pc EXCEPT ![t] = "get_y"]
                       /\ UNCHANGED <<mutex_, guards, arg, out, hist>>

\* return value_; the first field
GetCopyX(t) == /\ pc[t] = "get_x"
               /\ ret' = [ret EXCEPT ![t].x = value_.x]
               /\ pc' = [pc EXCEPT ![t] = "get_y"]
               /\ UNCHANGED <<value_, mutex_, guards, arg, out, hist>>

\* return value_; the second field
GetCopyY(t) == /\ pc[t] = "get_y"
               /\ ret' = [ret EXCEPT ![t].y = value_.y]
               /\ pc' = [pc EXCEPT ![t] = "get_unlock"]
               /\ UNCHANGED <<value_, mutex_, guards, arg, out, hist>>

\* ~shared_lock, and the return: the caller has the copy
GetUnlock(t) == /\ pc[t] = "get_unlock"
                /\ mutex_' = UnlockShared(mutex_, t)
                /\ pc' = [pc EXCEPT ![t] = "idle"]
                /\ out' = ret[t]
                /\ ret' = [ret EXCEPT ![t] = Blank]
                /\ UNCHANGED <<value_, guards, arg, hist>>

\* -------------------------------------------------------------- ConstPtr<T>

\* Protected<T>::getConstPtr: return ConstPtr<T>(&value_, mutex_);
GetConstPtrCall(t) == /\ pc[t] = "idle"
                      /\ Free(t) /= {}
                      /\ pc' = [pc EXCEPT ![t] = "constptr_lock"]
                      /\ UNCHANGED <<value_, mutex_, guards, arg, ret, out, hist>>

\* A ConstPtr constructor calling lock().
ConstPtrCtorExclusive(t) ==
    /\ pc[t] = "constptr_lock"
    /\ CanLock(mutex_)
    /\ mutex_' = Lock(mutex_, t)
    /\ guards' = [guards EXCEPT ![NextSlot(t)] =
           [st |-> "live", kind |-> "const", obj_ |-> "value_",
            acq |-> NextSlot(t), moved |-> FALSE, unlocks |-> 0]]
    /\ pc' = [pc EXCEPT ![t] = "idle"]
    /\ UNCHANGED <<value_, arg, ret, out, hist>>

\* ConstPtr(const T* obj, Mutex& mutex): obj_(obj) and mutex_.lock_shared()
ConstPtrCtor(t) == /\ pc[t] = "constptr_lock"
                   /\ CanLockShared(mutex_)
                   /\ mutex_' = LockShared(mutex_, t)
                   /\ guards' = [guards EXCEPT ![NextSlot(t)] =
                          [st |-> "live", kind |-> "const", obj_ |-> "value_",
                           acq |-> NextSlot(t), moved |-> FALSE, unlocks |-> 0]]
                   /\ pc' = [pc EXCEPT ![t] = "idle"]
                   /\ UNCHANGED <<value_, arg, ret, out, hist>>

\* mutex_.lock_shared() of the constructor, called by the thread that owns
\* the lock exclusively, failing with std::system_error: no guard is
\* constructed.
ConstPtrCtorThrows(t) == /\ pc[t] = "constptr_lock"
                         /\ ~mutex_.ub /\ mutex_.exclusive = t
                         /\ pc' = [pc EXCEPT ![t] = "idle"]
                         /\ UNCHANGED <<value_, mutex_, guards, arg, ret, out, hist>>

\* ConstPtr(ConstPtr&& other): obj_(other.obj_); other keeps its obj_
ConstPtrMovedFrom(src) == [src EXCEPT !.moved = TRUE]

ConstPtrMove(t, g) == /\ pc[t] = "idle"
                      /\ g \in Born(t)
                      /\ guards[g].kind = "const"
                      /\ Free(t) /= {}
                      /\ guards' = [guards EXCEPT
                            ![NextSlot(t)] = [st |-> "live", kind |-> "const",
                                              obj_ |-> guards[g].obj_, acq |-> guards[g].acq,
                                              moved |-> FALSE, unlocks |-> 0],
                            ![g] = ConstPtrMovedFrom(guards[g])]
                      /\ UNCHANGED <<value_, mutex_, pc, arg, ret, out, hist>>

\* ConstPtr& operator=(ConstPtr&& other), on two guards of one container.
\* mutex_ = &other.mutex_ assigns a Mutex* to the std::shared_mutex the
\* reference names and is rejected when the member is instantiated; the step
\* is the statement that remains, std::swap(obj_, other.obj_), with both
\* references naming the lock they named.  The acquisition goes where the
\* pointer goes.
ConstPtrMoveAssign(t, dst, src) ==
    /\ pc[t] = "idle"
    /\ dst \in Born(t) /\ src \in Born(t) /\ dst /= src
    /\ guards[dst].kind = "const" /\ guards[src].kind = "const"
    /\ guards' = [guards EXCEPT
          ![dst] = [@ EXCEPT !.obj_ = guards[src].obj_, !.acq = guards[src].acq],
          ![src] = [@ EXCEPT !.obj_ = guards[dst].obj_, !.acq = guards[dst].acq,
                             !.moved = TRUE]]
    /\ UNCHANGED <<value_, mutex_, pc, arg, ret, out, hist>>

\* A ConstPtr destructor that leaves the lock held.
ConstPtrDtorKeepsLock(t, g) ==
    /\ pc[t] = "idle"
    /\ g \in Born(t)
    /\ guards[g].kind = "const"
    /\ guards' = [guards EXCEPT ![g] = Destroyed(guards[g], 0)]
    /\ UNCHANGED <<value_, mutex_, pc, arg, ret, out, hist>>

\* ~ConstPtr(): mutex_.unlock_shared(), whatever obj_ is
ConstPtrDtor(t, g) == /\ pc[t] = "idle"
                      /\ g \in Born(t)
                      /\ guards[g].kind = "const"
                      /\ mutex_' = UnlockShared(mutex_, t)
                      /\ guards' = [guards EXCEPT ![g] = Destroyed(guards[g], 1)]
                      /\ UNCHANGED <<value_, pc, arg, ret, out, hist>>

\* operator* and operator-> of a ConstPtr that is true: the caller reads *obj_
ConstPtrDeref(t, g) == /\ pc[t] = "idle"
                       /\ g \in Born(t)
                       /\ guards[g].kind = "const"
                       /\ Bool(g)
                       /\ out' = value_
                       /\ UNCHANGED <<value_, mutex_, guards, pc, arg, ret, hist>>

\* ------------------------------------------------------------ MutablePtr<T>

\* Protected<T>::getMutablePtr: return MutablePtr<T>(&value_, mutex_);
GetMutablePtrCall(t) == /\ pc[t] = "idle"
                        /\ Free(t) /= {}
                        /\ pc' = [pc EXCEPT ![t] = "mutableptr_lock"]
                        /\ UNCHANGED <<value_, mutex_, guards, arg, ret, out, hist>>

\* A MutablePtr constructor calling lock_shared().
MutablePtrCtorShared(t) ==
    /\ pc[t] = "mutableptr_lock"
    /\ CanLockShared(mutex_)
    /\ mutex_' = LockShared(mutex_, t)
    /\ guards' = [guards EXCEPT ![NextSlot(t)] =
           [st |-> "live", kind |-> "mutable", obj_ |-> "value_",
            acq |-> NextSlot(t), moved |-> FALSE, unlocks |-> 0]]
    /\ pc' = [pc EXCEPT ![t] = "idle"]
    /\ UNCHANGED <<value_, arg, ret, out, hist>>

\* MutablePtr(T* obj, Mutex& mutex): obj_(obj) and mutex_.lock()
MutablePtrCtor(t) == /\ pc[t] = "mutableptr_lock"
                     /\ CanLock(mutex_)
                     /\ mutex_' = Lock(mutex_, t)
                     /\ guards' = [guards EXCEPT ![NextSlot(t)] =
                            [st |-> "live", kind |-> "mutable", obj_ |-> "value_",
                             acq |-> NextSlot(t), moved |-> FALSE, unlocks |-> 0]]
                     /\ pc' = [pc EXCEPT ![t] = "idle"]
                     /\ UNCHANGED <<value_, arg, ret, out, hist>>

\* mutex_.lock() of the constructor, called by the thread that owns the lock
\* exclusively, failing with std::system_error: no guard is constructed.
MutablePtrCtorThrows(t) == /\ pc[t] = "mutableptr_lock"
                           /\ ~mutex_.ub /\ mutex_.exclusive = t
                           /\ pc' = [pc EXCEPT ![t] = "idle"]
                           /\ UNCHANGED <<value_, mutex_, guards, arg, ret, out, hist>>

\* MutablePtr(MutablePtr&& other): obj_ starts as nullptr and is swapped
\* with other.obj_
MutablePtrMovedFrom(src) == [src EXCEPT !.obj_ = "nullptr", !.moved = TRUE]

MutablePtrMove(t, g) == /\ pc[t] = "idle"
                        /\ g \in Born(t)
                        /\ guards[g].kind = "mutable"
                        /\ Free(t) /= {}
                        /\ guards' = [guards EXCEPT
                              ![NextSlot(t)] = [st |-> "live", kind |-> "mutable",
                                                obj_ |-> guards[g].obj_, acq |-> guards[g].acq,
                                                moved |-> FALSE, unlocks |-> 0],
                              ![g] = MutablePtrMovedFrom(guards[g])]
                        /\ UNCHANGED <<value_, mutex_, pc, arg, ret, out, hist>>

\* MutablePtr& operator=(MutablePtr&& other), on two guards of one container:
\* as for ConstPtr, what remains is std::swap(obj_, other.obj_).
MutablePtrMoveAssign(t, dst, src) ==
    /\ pc[t] = "idle"
    /\ dst \in Born(t) /\ src \in Born(t) /\ dst /= src
    /\ guards[dst].kind = "mutable" /\ guards[src].kind = "mutable"
    /\ guards' = [guards EXCEPT
          ![dst] = [@ EXCEPT !.obj_ = guards[src].obj_, !.acq = guards[src].acq],
          ![src] = [@ EXCEPT !.obj_ = guards[dst].obj_, !.acq = guards[dst].acq,
                             !.moved = TRUE]]
    /\ UNCHANGED <<value_, mutex_, pc, arg, ret, out, hist>>

\* A MutablePtr destructor that leaves the lock held.
MutablePtrDtorKeepsLock(t, g) ==
    /\ pc[t] = "idle"
    /\ g \in Born(t)
    /\ guards[g].kind = "mutable"
    /\ guards' = [guards EXCEPT ![g] = Destroyed(guards[g], 0)]
    /\ UNCHANGED <<value_, mutex_, pc, arg, ret, out, hist>>

\* ~MutablePtr(): mutex_.unlock(), whatever obj_ is
MutablePtrDtor(t, g) == /\ pc[t] = "idle"
                        /\ g \in Born(t)
                        /\ guards[g].kind = "mutable"
                        /\ mutex_' = Unlock(mutex_, t)
                        /\ guards' = [guards EXCEPT ![g] = Destroyed(guards[g], 1)]
                        /\ UNCHANGED <<value_, pc, arg, ret, out, hist>>

\* operator* of a MutablePtr that is true: the caller reads *obj_
MutablePtrDeref(t, g) == /\ pc[t] = "idle"
                         /\ g \in Born(t)
                         /\ guards[g].kind = "mutable"
                         /\ Bool(g)
                         /\ out' = value_
                         /\ UNCHANGED <<value_, mutex_, guards, pc, arg, ret, hist>>

\* operator-> of a MutablePtr that is true: the caller assigns one field,
\* as val->x = 68 does
MutablePtrWrite(t, g, f, v) == /\ pc[t] = "idle"
                               /\ g \in Born(t)
                               /\ guards[g].kind = "mutable"
                               /\ Bool(g)
                               /\ value_' = [value_ EXCEPT ![f] = v]
                               /\ hist' = [hist EXCEPT !.ptr = TRUE]
                               /\ UNCHANGED <<mutex_, guards, pc, arg, ret, out>>

\* ------------------------------------------------------------------ Next

\* A step of a thread of the program at large: main of example.cpp stays
\* where it is.
Run(A) == A /\ UNCHANGED <<script, calls>>

\* Threads that call the operations of Protected<T> and destroy the guards
\* they obtained, and never move a guard.
NextNoMove ==
    \/ \E t \in Threads, v \in SetArgs : Run(SetCopy(t, v))
    \/ \E t \in Threads, v \in SetArgs : Run(SetMove(t, v))
    \/ \E t \in Threads : Run(SetLock(t))
    \/ \E t \in Threads : Run(SetWriteX(t))
    \/ \E t \in Threads : Run(SetWriteY(t))
    \/ \E t \in Threads : Run(SetUnlock(t))
    \/ \E t \in Threads : Run(GetCall(t))
    \/ \E t \in Threads : Run(GetLock(t))
    \/ \E t \in Threads : Run(GetCopyX(t))
    \/ \E t \in Threads : Run(GetCopyY(t))
    \/ \E t \in Threads : Run(GetUnlock(t))
    \/ \E t \in Threads : Run(GetConstPtrCall(t))
    \/ \E t \in Threads : Run(ConstPtrCtor(t))
    \/ \E t \in Threads : Run(GetMutablePtrCall(t))
    \/ \E t \in Threads : Run(MutablePtrCtor(t))
    \/ \E t \in Threads, g \in GuardIds : Run(ConstPtrDtor(t, g))
    \/ \E t \in Threads, g \in GuardIds : Run(MutablePtrDtor(t, g))
    \/ \E t \in Threads, g \in GuardIds : Run(ConstPtrDeref(t, g))
    \/ \E t \in Threads, g \in GuardIds : Run(MutablePtrDeref(t, g))
    \/ \E t \in Threads, g \in GuardIds, f \in PtrFields, v \in PtrWrites :
          Run(MutablePtrWrite(t, g, f, v))
    \/ \E t \in Threads : Run(SetLockThrows(t))
    \/ \E t \in Threads : Run(GetLockThrows(t))
    \/ \E t \in Threads : Run(ConstPtrCtorThrows(t))
    \/ \E t \in Threads : Run(MutablePtrCtorThrows(t))

SpecNoMove == Init /\ [][NextNoMove]_vars

\* Threads that also move-construct guards.
Next ==
    \/ NextNoMove
    \/ \E t \in Threads, g \in GuardIds : Run(ConstPtrMove(t, g))
    \/ \E t \in Threads, g \in GuardIds : Run(MutablePtrMove(t, g))

Spec == Init /\ [][Next]_vars

\* Threads that obtain guards, read and write through them, move-construct,
\* move-assign and destroy them.
NextGuards ==
    \/ \E t \in Threads : Run(GetConstPtrCall(t))
    \/ \E t \in Threads : Run(ConstPtrCtor(t))
    \/ \E t \in Threads : Run(ConstPtrCtorThrows(t))
    \/ \E t \in Threads : Run(GetMutablePtrCall(t))
    \/ \E t \in Threads : Run(MutablePtrCtor(t))
    \/ \E t \in Threads : Run(MutablePtrCtorThrows(t))
    \/ \E t \in Threads, g \in GuardIds : Run(ConstPtrMove(t, g))
    \/ \E t \in Threads, g \in GuardIds : Run(MutablePtrMove(t, g))
    \/ \E t \in Threads, dst \in GuardIds, src \in GuardIds :
          Run(ConstPtrMoveAssign(t, dst, src))
    \/ \E t \in Threads, dst \in GuardIds, src \in GuardIds :
          Run(MutablePtrMoveAssign(t, dst, src))
    \/ \E t \in Threads, g \in GuardIds : Run(ConstPtrDtor(t, g))
    \/ \E t \in Threads, g \in GuardIds : Run(MutablePtrDtor(t, g))
    \/ \E t \in Threads, g \in GuardIds : Run(ConstPtrDeref(t, g))
    \/ \E t \in Threads, g \in GuardIds : Run(MutablePtrDeref(t, g))
    \/ \E t \in Threads, g \in GuardIds, f \in PtrFields, v \in PtrWrites :
          Run(MutablePtrWrite(t, g, f, v))

SpecGuards == Init /\ [][NextGuards]_vars

\* ------------------------------------------------- threads that do not nest

\* A call by a thread that holds no guard and has calls left to make.
Call(t, A) == /\ Born(t) = {}
              /\ calls[t] < MaxCalls
              /\ A
              /\ calls' = [calls EXCEPT ![t] = @ + 1]
              /\ UNCHANGED script

\* What a thread does without the caller deciding it: the acquisition it
\* waits for, the statements of the call it is in, and the destruction of the
\* guard it holds when the guard's scope ends.
Step(t) ==
    \/ Run(SetLock(t))
    \/ Run(SetWriteX(t))
    \/ Run(SetWriteY(t))
    \/ Run(SetUnlock(t))
    \/ Run(GetLock(t))
    \/ Run(GetCopyX(t))
    \/ Run(GetCopyY(t))
    \/ Run(GetUnlock(t))
    \/ Run(ConstPtrCtor(t))
    \/ Run(MutablePtrCtor(t))
    \/ \E g \in GuardIds : Run(ConstPtrDtor(t, g))
    \/ \E g \in GuardIds : Run(MutablePtrDtor(t, g))

\* Threads that call at most MaxCalls operations each, never while holding a
\* guard, and destroy every guard they obtain.
NextFair ==
    \/ \E t \in Threads, v \in SetArgs : Call(t, SetCopy(t, v))
    \/ \E t \in Threads, v \in SetArgs : Call(t, SetMove(t, v))
    \/ \E t \in Threads : Call(t, GetCall(t))
    \/ \E t \in Threads : Call(t, GetConstPtrCall(t))
    \/ \E t \in Threads : Call(t, GetMutablePtrCall(t))
    \/ \E t \in Threads : Step(t)

\* Every thread is scheduled: a step of it that stays possible is taken.
SpecFair == Init /\ [][NextFair]_vars /\ \A t \in Threads : WF_vars(Step(t))

\* ------------------------------------------------------ main of example.cpp

\* main runs alone, as thread Main, with val of the first if in the first
\* guard object and val of the second if in the second.  script is the
\* statement main is at; the Point the container is constructed from is kept
\* in arg, as the parameter of Protected(T&&).
Main == 1
FirstVal == <<Main, 1>>
SecondVal == <<Main, 2>>
Done == 20

FieldValues == {1, 2, 42, 68, 69}
ExamplePoints == [x : FieldValues, y : FieldValues]

ExampleInit == /\ value_ \in ExamplePoints
               /\ mutex_ = Unlocked
               /\ guards = [g \in GuardIds |-> Unborn]
               /\ pc = [t \in Threads |-> "idle"]
               /\ arg = [t \in Threads |-> IF t = Main THEN [v |-> value_, ovl |-> "T&&"]
                                                        ELSE NoArg]
               /\ ret = [t \in Threads |-> Blank]
               /\ out = Blank
               /\ hist = [set |-> Blank, ptr |-> FALSE]
               /\ script = 1
               /\ calls = [t \in Threads |-> 0]

At(n, A) == script = n /\ A /\ script' = n + 1 /\ UNCHANGED calls

ExampleNext ==
    \* std::cout << result.get()
    \/ At(1, GetCall(Main))
    \/ At(2, GetLock(Main))
    \/ At(3, GetCopyX(Main))
    \/ At(4, GetCopyY(Main))
    \/ At(5, GetUnlock(Main))
    \* if(auto val = result.getConstPtr()) { std::cout << (*val) }
    \/ At(6, GetConstPtrCall(Main))
    \/ At(7, ConstPtrCtor(Main))
    \/ At(8, ConstPtrDeref(Main, FirstVal))
    \/ At(9, ConstPtrDtor(Main, FirstVal))
    \* if(auto val = result.getMutablePtr()) { val->x = 68; std::cout << *val }
    \/ At(10, GetMutablePtrCall(Main))
    \/ At(11, MutablePtrCtor(Main))
    \/ \E v \in PtrWrites : At(12, MutablePtrWrite(Main, SecondVal, "x", v))
    \/ At(13, MutablePtrDeref(Main, SecondVal))
    \/ At(14, MutablePtrDtor(Main, SecondVal))
    \* the get() that follows
    \/ At(15, GetCall(Main))
    \/ At(16, GetLock(Main))
    \/ At(17, GetCopyX(Main))
    \/ At(18, GetCopyY(Main))
    \/ At(19, GetUnlock(Main))

SpecExample == ExampleInit /\ [][ExampleNext]_vars

\* ---------------------------------------------------------------- holders

\* A call of set between its acquisition of the lock and its return.
InSet(t) == pc[t] \in {"set_x", "set_y", "set_unlock"}

\* A call of get between its acquisition of the lock and its return.
InGet(t) == pc[t] \in {"get_x", "get_y", "get_unlock"}

LiveConstPtrs(t) == {g \in Born(t) : guards[g].kind = "const" /\ Bool(g)}
LiveMutablePtrs(t) == {g \in Born(t) : guards[g].kind = "mutable" /\ Bool(g)}

HoldsExclusive(t) == InSet(t) \/ LiveMutablePtrs(t) /= {}
HoldsShared(t) == InGet(t) \/ LiveConstPtrs(t) /= {}

\* ----------------------------------------------------------------- claims

\* C1: mutual exclusion.  Among threads that call set, get, getConstPtr and
\* getMutablePtr and destroy the guards they obtained, when a thread holds the
\* lock exclusively (a live MutablePtr, or a set in flight) no other thread
\* holds it in any mode.
C1_MutualExclusion ==
    \A t \in Threads : HoldsExclusive(t) =>
        \A u \in Threads \ {t} : ~HoldsExclusive(u) /\ ~HoldsShared(u)

\* A thread holds a MutablePtr while another is blocked in set.
C1_Witness ==
    \E t \in Threads, u \in Threads :
        t /= u /\ LiveMutablePtrs(t) /= {} /\ pc[u] = "set_lock"

\* C2: while a ConstPtr of another thread is live, getMutablePtr and set do
\* not proceed: the step that acquires the lock for them, and the return of set,
\* happen only in states where no other thread has a live ConstPtr.
C2_WriterWaitsForReaders ==
    [][\A t \in Threads :
          (pc[t] \in {"mutableptr_lock", "set_lock", "set_unlock"} /\ pc'[t] /= pc[t])
              => \A u \in Threads \ {t} : LiveConstPtrs(u) = {}]_vars

\* A getMutablePtr call is blocked while every guard of another thread is a
\* live ConstPtr.
C2_Witness ==
    \E t \in Threads, u \in Threads :
        /\ t /= u
        /\ pc[t] = "mutableptr_lock"
        /\ \A i \in Slots : <<u, i>> \in LiveConstPtrs(u)

\* C3: the payload is never reached outside a held lock.  Every dereference
\* of a guard that is true is made while its thread owns the lock: in shared
\* mode for a ConstPtr, exclusively for a MutablePtr.
C3_DerefUnderLock ==
    [][\A t \in Threads, g \in GuardIds :
          /\ ConstPtrDeref(t, g) =>
                 ~mutex_.ub /\ mutex_.shared[t] > 0
          /\ (\/ MutablePtrDeref(t, g)
              \/ \E f \in PtrFields, v \in PtrWrites : MutablePtrWrite(t, g, f, v)) =>
                 ~mutex_.ub /\ mutex_.exclusive = t]_vars

\* The unlock_shared() and unlock() calls made so far by the destructors of
\* the guard a call of getConstPtr or getMutablePtr returned and of the guards
\* it was moved into.
Releases(r) == Cardinality({g \in GuardIds : guards[g].acq = r /\ guards[g].unlocks > 0})

Lineage(r) == {g \in GuardIds : guards[g].acq = r}

\* C4: exactly-once release.  The acquisition made for a guard is released at
\* most once over the guard and the guards it is moved into, and exactly once
\* when all of them are destroyed.
C4_ExactlyOnceRelease ==
    \A r \in GuardIds : guards[r].acq = r =>
        /\ Releases(r) <= 1
        /\ (\A g \in Lineage(r) : guards[g].st = "dead") => Releases(r) = 1

\* C5: a guard returned by getConstPtr or getMutablePtr is true until it is
\* moved from, and a guard that was the source of a move construction is
\* false, for both kinds of guard.
C5_BoolOfGuard ==
    \A g \in GuardIds : guards[g].st = "live" =>
        /\ (guards[g].acq = g /\ ~guards[g].moved) => Bool(g)
        /\ guards[g].moved => ~Bool(g)

\* C6: no lost updates.  Among concurrent calls of set, with no write through
\* a MutablePtr since, at most one call is past its lock, the payload is never
\* a mixture of the values of two calls, and once no call is writing the
\* payload is the value of the call that acquired the lock last.
C6_NoLostUpdate ==
    /\ Cardinality({t \in Threads : InSet(t)}) <= 1
    /\ \A t \in Threads : pc[t] = "set_y" => value_.x = arg[t].v.x
    /\ (hist.set /= Blank /\ ~hist.ptr /\ \A t \in Threads : pc[t] \notin {"set_x", "set_y"})
           => value_ = hist.set

\* Two calls of set with different values are in progress: one has replaced
\* the payload, the other is blocked on the lock.
C6_Witness ==
    \E t \in Threads, u \in Threads :
        /\ pc[t] = "set_unlock" /\ pc[u] = "set_lock"
        /\ arg[t].v /= arg[u].v
        /\ value_ = arg[t].v

\* No thread is between two writes of the payload: no set has the lock, no
\* MutablePtr is live.
NoWriter == \A u \in Threads : ~HoldsExclusive(u)

\* C7: get returns a snapshot.  While get copies, nobody writes the payload,
\* what it has copied is what the payload holds, and the value it returns is
\* the whole payload of the instant it returns.
C7_GetSnapshot ==
    \A t \in Threads :
        /\ InGet(t) => NoWriter
        /\ pc[t] = "get_y" => ret[t].x = value_.x
        /\ pc[t] = "get_unlock" => ret[t] = value_

\* A get is about to return a payload written through a MutablePtr while a
\* set is blocked on the lock.
C7_Witness ==
    \E t \in Threads, u \in Threads :
        /\ pc[t] = "get_unlock" /\ pc[u] = "set_lock"
        /\ ret[t].x \in PtrWrites

C9_EndToEnd ==
    /\ script < Done => ENABLED ExampleNext
    /\ arg[Main].v = Point(42, 69) =>
          /\ script \in {6, 9} => out = Point(42, 69)
          /\ script \in {14, Done} => out = Point(68, 69)
          /\ script = Done => value_ = Point(68, 69) /\ mutex_ = Unlocked

\* main has run to its end on the payload {x:42, y:69}.
C9_Witness ==
    /\ script = Done
    /\ arg[Main].v = Point(42, 69)
    /\ out = Point(68, 69)
    /\ guards[FirstVal].st = "dead" /\ guards[SecondVal].st = "dead"

\* What a thread owns of the lock for its calls in flight and its guards.
OwnedShared(t) == Cardinality(LiveConstPtrs(t)) + (IF InGet(t) THEN 1 ELSE 0)

\* C10: set and get, and the lock.  set owns the lock exclusively from its
\* first write to its return, the payload is its parameter when it returns, and
\* it has released the lock after; get owns the lock in shared mode while it
\* copies and has released it after; a get that follows a set with no write in
\* between returns the parameter of that set, for both overloads of set.
C10_SetGetRoundTrip ==
    /\ ~mutex_.ub
    /\ \A t \in Threads :
          /\ InSet(t) => mutex_.exclusive = t
          /\ pc[t] = "set_unlock" => value_ = arg[t].v
          /\ mutex_.exclusive = t => HoldsExclusive(t)
          /\ mutex_.shared[t] = OwnedShared(t)
          /\ (pc[t] = "get_unlock" /\ hist.set /= Blank /\ ~hist.ptr) => ret[t] = hist.set

\* A get is about to return the parameter of the last set, different from the
\* payload the set replaced, and the thread owns nothing else of the lock.
C10_Witness ==
    \E t \in Threads :
        /\ pc[t] = "get_unlock" /\ mutex_.shared[t] = 1
        /\ hist.set /= Blank /\ ~hist.ptr
        /\ ret[t] = hist.set
        /\ out /= Blank /\ out /= ret[t]

\* C11: move assignment of a guard transfers ownership.  After
\* dst = std::move(src) on two guards of one kind, with src true: dst is true
\* and has the acquisition src had, src is false, no other true guard has that
\* acquisition; and the destructors of the guards an acquisition went through
\* never release it twice.
C11_MoveAssignTransfers ==
    /\ [][\A t \in Threads, dst \in GuardIds, src \in GuardIds :
            ((ConstPtrMoveAssign(t, dst, src) \/ MutablePtrMoveAssign(t, dst, src))
                /\ Bool(src)) =>
                  /\ Bool(dst)' /\ ~Bool(src)'
                  /\ guards'[dst].acq = guards[src].acq
                  /\ \A g \in GuardIds \ {dst} :
                        (guards'[g].st = "live" /\ Bool(g)') =>
                            guards'[g].acq /= guards'[dst].acq]_vars
    /\ [](\A r \in GuardIds : Releases(r) <= 1)

\* C12: get returns a copy independent of the container.  The Point a caller
\* was handed changes only when a get returns or a guard is read through
\* again; a step that changes the payload, in set or through a MutablePtr,
\* leaves it as it was.
C12_GetCopyIndependent ==
    [][/\ value_' /= value_ => out' = out
       /\ out' /= out =>
              \E t \in Threads :
                  \/ GetUnlock(t)
                  \/ \E g \in GuardIds : ConstPtrDeref(t, g) \/ MutablePtrDeref(t, g)]_vars

\* No guard was ever constructed, a get has returned, and the payload has
\* been replaced since: the copy still holds what get returned.
C12_Witness ==
    /\ \A g \in GuardIds : guards[g].st = "unborn"
    /\ \A t \in Threads : pc[t] = "idle"
    /\ out \in InitialPoints
    /\ hist.set /= Blank /\ value_ = hist.set /\ value_ /= out

\* C13: the lock tracks the guards.  The shared ownerships of the lock are
\* as many as the ConstPtr that are true plus the get calls in flight, and
\* the lock is owned exclusively exactly when one MutablePtr is true or one
\* set is in flight.
C13_LockTracksGuards ==
    /\ ~mutex_.ub
    /\ SharedCount(mutex_) =
           Cardinality({g \in GuardIds : guards[g].st = "live"
                                          /\ guards[g].kind = "const" /\ Bool(g)})
           + Cardinality({t \in Threads : InGet(t)})
    /\ (mutex_.exclusive /= NoThread) <=>
           \/ Cardinality({g \in GuardIds : guards[g].st = "live"
                                             /\ guards[g].kind = "mutable" /\ Bool(g)}) = 1
           \/ Cardinality({t \in Threads : InSet(t)}) = 1

\* A guard whose acquisition is over: destroyed, or moved from.
Released(g) == guards[g].st = "dead" \/ guards[g].moved

\* C14: the lifecycle of a guard is one-way.  A guard that was destroyed or
\* moved from stays so, is false, and does not release the lock again,
\* whatever is done with it after, move assignments included.
C14_OneWayLifecycle ==
    [][\A g \in GuardIds : Released(g) =>
          /\ Released(g)'
          /\ ~Bool(g)'
          /\ guards'[g].unlocks = guards[g].unlocks]_vars

\* A call that asks for the lock in a mode the guards of its own thread
\* exclude: set or getMutablePtr with a guard that is true, get or
\* getConstPtr with a MutablePtr that is true.
Nested(t) ==
    \/ /\ pc[t] \in {"set_lock", "mutableptr_lock"}
       /\ LiveConstPtrs(t) \cup LiveMutablePtrs(t) /= {}
    \/ /\ pc[t] \in {"get_lock", "constptr_lock"}
       /\ LiveMutablePtrs(t) /= {}

C17_ReadSideLeavesPayload ==
    [][value_' /= value_ =>
          \E t \in Threads :
              \/ SetWriteX(t)
              \/ SetWriteY(t)
              \/ \E g \in LiveMutablePtrs(t), f \in PtrFields, v \in PtrWrites :
                     MutablePtrWrite(t, g, f, v)]_vars

\* The payload was written through a MutablePtr, which was moved and
\* destroyed with the guard it was moved from, and the payload read after is
\* the payload as written.
C17_Witness ==
    \E t \in Threads :
        /\ \A i \in Slots : /\ guards[<<t, i>>].st = "dead"
                             /\ guards[<<t, i>>].acq = <<t, 1>>
        /\ pc[t] = "idle"
        /\ hist.ptr /\ value_.x \in PtrWrites
        /\ out = value_

\* C15: progress without nesting.  When every thread makes finitely many
\* calls, none while it holds a guard, and destroys the guards it obtains,
\* under fair scheduling every call returns, blocked acquisitions included,
\* and in the end the lock stays unlocked with no guard left and no call in
\* flight.
C15_Progress ==
    /\ \A t \in Threads : (pc[t] /= "idle") ~> (pc[t] = "idle")
    /\ <>[](/\ mutex_ = Unlocked
            /\ \A t \in Threads : pc[t] = "idle" /\ Born(t) = {})

\* Every thread has made all its calls, a set and a guard among them, and
\* all of it is over: no call in flight, no guard left, the lock unlocked.
C15_Witness ==
    /\ mutex_ = Unlocked
    /\ \A t \in Threads : pc[t] = "idle" /\ Born(t) = {} /\ calls[t] = MaxCalls
    /\ \E g \in GuardIds : guards[g].st = "dead" /\ guards[g].unlocks = 1
    /\ hist.set /= Blank

====
